---- MODULE Spec2Model ----
(***************************************************************************)
(* The dataflow graph engine of src/src/core/graph.rs: NodeGraph, a        *)
(* petgraph Graph<NodeId, ConnectionId, Directed> with two index maps, a   *)
(* connection registry, an evaluation order and a dirty set.               *)
(*                                                                         *)
(* petgraph's Graph is an arena: node indices are positions 0..n-1 of a    *)
(* vector, and Graph::remove_node(i) moves the LAST node into position i   *)
(* (swap-remove).  Its adjacency lists are linked lists with insertion at  *)
(* the head, so neighbors_directed yields the most recently added edge     *)
(* first; edge indices are never kept by NodeGraph, so the edges are kept  *)
(* here in insertion order.                                                *)
(***************************************************************************)
EXTENDS Integers, Sequences, FiniteSets, TLC

\* ------------------------------------------------------------------ bounds
\* The number of node identifiers callers use, and the number of calls made
MaxNodeId == 3
MaxOps == 7

\* NodeId and ConnectionId wrap a UUID; the engine only compares them
NodeIds == 1..MaxNodeId
ConnIds == 1..MaxOps
\* from_port, to_port and data_type are stored in the connection record and
\* never read by the engine
Ports == {0}
DataTypes == {"Float"}
\* port numbers and data types a caller may pass, for the properties that
\* range over them
SomePorts == {0, 1}
SomeDataTypes == {"Float", "Image"}

VARIABLES graph, node_to_index, index_to_node, connections,
          evaluation_order, dirty_nodes, issued, known, calls, ret

vars == <<graph, node_to_index, index_to_node, connections,
          evaluation_order, dirty_nodes, issued, known, calls, ret>>

\* ---------------------------------------------------------------- helpers
Reverse(s) == [i \in 1..Len(s) |-> s[Len(s) + 1 - i]]

Range(s) == {s[i] : i \in 1..Len(s)}

RemoveAt(s, i) == SubSeq(s, 1, i - 1) \o SubSeq(s, i + 1, Len(s))

Restrict(f, S) == [x \in S |-> f[x]]

Put(f, k, v) == [x \in DOMAIN f \cup {k} |-> IF x = k THEN v ELSE f[x]]

\* ------------------------------------------------------- petgraph::Graph
\* Graph::new()
graph_new == [nodes |-> <<>>, edges |-> <<>>]

node_count(g) == Len(g.nodes)

\* Graph::node_indices(): 0..n-1 in order
node_indices(g) == [i \in 1..Len(g.nodes) |-> i - 1]

\* Graph::add_node(w): the new node takes index node_count
graph_add_node(g, w) == [g EXCEPT !.nodes = Append(@, w)]

\* Graph::add_edge(a, b, w) panics when an index is out of bounds
add_edge_panics(g, a, b) == a >= Len(g.nodes) \/ b >= Len(g.nodes)

graph_add_edge(g, a, b, w) ==
    [g EXCEPT !.edges = Append(@, [a |-> a, b |-> b, weight |-> w])]

\* Graph::neighbors_directed(idx, dir): one entry per edge, newest edge first;
\* empty for an index that is out of bounds
neighbors_directed(g, idx, dir) ==
    LET rev == Reverse(g.edges)
        sel == IF dir = "Outgoing"
               THEN SelectSeq(rev, LAMBDA e : e.a = idx)
               ELSE SelectSeq(rev, LAMBDA e : e.b = idx)
    IN [i \in 1..Len(sel) |-> IF dir = "Outgoing" THEN sel[i].b ELSE sel[i].a]

\* Graph::find_edge(a, b): the first edge a -> b of a's outgoing list (the
\* newest), as a position of g.edges; 0 for None
find_edge(g, a, b) ==
    LET hits == {i \in 1..Len(g.edges) : g.edges[i].a = a /\ g.edges[i].b = b}
    IN IF hits = {} THEN 0 ELSE CHOOSE i \in hits : \A j \in hits : j <= i

\* Graph::remove_edge(e)
graph_remove_edge(g, e) == [g EXCEPT !.edges = RemoveAt(@, e)]

\* Graph::remove_node(idx): None (no change) when idx is out of bounds;
\* otherwise every edge at idx is removed and the last node adopts idx
graph_remove_node(g, idx) ==
    IF idx >= Len(g.nodes) THEN g
    ELSE LET last == Len(g.nodes) - 1
             kept == SelectSeq(g.edges, LAMBDA e : e.a # idx /\ e.b # idx)
             moved == [i \in 1..Len(kept) |->
                         [a |-> IF kept[i].a = last THEN idx ELSE kept[i].a,
                          b |-> IF kept[i].b = last THEN idx ELSE kept[i].b,
                          weight |-> kept[i].weight]]
             swapped == [i \in 1..last |->
                           IF i = idx + 1 THEN g.nodes[last + 1] ELSE g.nodes[i]]
         IN [nodes |-> swapped, edges |-> moved]

\* ------------------------------------------------------------- NodeGraph
\* impl Default for NodeGraph
NodeGraph_default ==
    [graph |-> graph_new,
     node_to_index |-> <<>>,
     index_to_node |-> <<>>,
     connections |-> <<>>,
     evaluation_order |-> <<>>,
     dirty_nodes |-> {}]

\* What a call returns: Ok(val) or a GraphError with its payload, or a panic
Ok(self, val) == [self |-> self, tag |-> "Ok", val |-> val]

Err(self, tag, val) == [self |-> self, tag |-> tag, val |-> val]

Panic(self) == [self |-> self, tag |-> "Panic", val |-> <<>>]

\* fn would_create_cycle: iterative DFS from to_index over outgoing edges
RECURSIVE cycle_dfs(_, _, _, _)
cycle_dfs(g, from_index, stack, visited) ==
    IF stack = <<>> THEN FALSE
    ELSE LET current == stack[Len(stack)]
             rest == SubSeq(stack, 1, Len(stack) - 1)
         IN IF current = from_index THEN TRUE
            ELSE IF current \in visited
            THEN cycle_dfs(g, from_index, rest, visited)
            ELSE LET seen == visited \cup {current}
                     push == SelectSeq(neighbors_directed(g, current, "Outgoing"),
                                       LAMBDA n : n \notin seen)
                 IN cycle_dfs(g, from_index, rest \o push, seen)

\* would_create_cycle that looks only one edge ahead of to_index
would_create_cycle_one_edge(g, from_index, to_index) ==
    \/ to_index = from_index
    \/ from_index \in Range(neighbors_directed(g, to_index, "Outgoing"))

\* would_create_cycle that starts the search at the successors of to_index
would_create_cycle_skips_start(g, from_index, to_index) ==
    cycle_dfs(g, from_index, neighbors_directed(g, to_index, "Outgoing"), {to_index})

would_create_cycle(g, from_index, to_index) ==
    cycle_dfs(g, from_index, <<to_index>>, {})

\* fn update_evaluation_order, the loop over one node's outgoing neighbours:
\* decrement the in-degree, push_back when it reaches zero
RECURSIVE kahn_relax(_, _, _)
kahn_relax(nbrs, in_degree, queue) ==
    IF nbrs = <<>> THEN [in_degree |-> in_degree, queue |-> queue]
    ELSE LET n == Head(nbrs)
             d == in_degree[n] - 1
         IN kahn_relax(Tail(nbrs), [in_degree EXCEPT ![n] = d],
                       IF d = 0 THEN Append(queue, n) ELSE queue)

\* fn update_evaluation_order, the while loop of Kahn's algorithm
RECURSIVE kahn_loop(_, _, _, _, _)
kahn_loop(g, i2n, in_degree, queue, order) ==
    IF queue = <<>> THEN order
    ELSE LET current == Head(queue)
             pushed == IF current \in DOMAIN i2n
                       THEN Append(order, i2n[current]) ELSE order
             r == kahn_relax(neighbors_directed(g, current, "Outgoing"),
                             in_degree, Tail(queue))
         IN kahn_loop(g, i2n, r.in_degree, r.queue, pushed)

\* fn update_evaluation_order
update_evaluation_order(self) ==
    LET g == self.graph
        idxs == node_indices(g)
        in_degree == [i \in Range(idxs) |->
                        Len(neighbors_directed(g, i, "Incoming"))]
        queue == SelectSeq(idxs, LAMBDA i : in_degree[i] = 0)
    IN [self EXCEPT !.evaluation_order =
            kahn_loop(g, self.index_to_node, in_degree, queue, <<>>)]

\* fn propagate_dirty_downstream: returns the dirty set after the recursion
RECURSIVE propagate_dirty_downstream(_, _, _)
RECURSIVE propagate_each(_, _, _)
propagate_each(self, dirty, downstream_nodes) ==
    IF downstream_nodes = <<>> THEN dirty
    ELSE LET d == Head(downstream_nodes)
         IN IF d \notin dirty
            THEN propagate_each(self,
                     propagate_dirty_downstream(self, dirty \cup {d}, d),
                     Tail(downstream_nodes))
            ELSE propagate_each(self, dirty, Tail(downstream_nodes))

propagate_dirty_downstream(self, dirty, node_id) ==
    IF node_id \in DOMAIN self.node_to_index
    THEN LET index == self.node_to_index[node_id]
             nbrs == neighbors_directed(self.graph, index, "Outgoing")
             mapped == SelectSeq(nbrs, LAMBDA i : i \in DOMAIN self.index_to_node)
             downstream_nodes == [k \in 1..Len(mapped) |-> self.index_to_node[mapped[k]]]
         IN propagate_each(self, dirty, downstream_nodes)
    ELSE dirty

\* mark_dirty that rebuilds the dirty set from the marked node alone
mark_dirty_reset(self, node_id) ==
    [self EXCEPT !.dirty_nodes =
        propagate_dirty_downstream(self, {node_id}, node_id)]

\* clear_dirty that also clears the nodes fed directly by node_id
clear_dirty_cascade(self, node_id) ==
    [self EXCEPT !.dirty_nodes =
        @ \ ({node_id} \cup {self.connections[c].to_node :
                c \in {d \in DOMAIN self.connections :
                         self.connections[d].from_node = node_id}})]

\* pub fn mark_dirty
mark_dirty(self, node_id) ==
    [self EXCEPT !.dirty_nodes =
        propagate_dirty_downstream(self, self.dirty_nodes \cup {node_id}, node_id)]

\* pub fn clear_dirty
clear_dirty(self, node_id) ==
    [self EXCEPT !.dirty_nodes = @ \ {node_id}]

\* add_node that forgets to mark the new node dirty
add_node_not_dirty(self, node_id) ==
    IF node_id \in DOMAIN self.node_to_index
    THEN Err(self, "NodeAlreadyExists", <<node_id>>)
    ELSE LET index == node_count(self.graph)
             s1 == [self EXCEPT
                      !.graph = graph_add_node(@, node_id),
                      !.node_to_index = Put(@, node_id, index),
                      !.index_to_node = Put(@, index, node_id)]
         IN Ok(update_evaluation_order(s1), <<>>)

\* pub fn add_node
add_node(self, node_id) ==
    IF node_id \in DOMAIN self.node_to_index
    THEN Err(self, "NodeAlreadyExists", <<node_id>>)
    ELSE LET index == node_count(self.graph)
             s1 == [self EXCEPT
                      !.graph = graph_add_node(@, node_id),
                      !.node_to_index = Put(@, node_id, index),
                      !.index_to_node = Put(@, index, node_id)]
         IN Ok(mark_dirty(update_evaluation_order(s1), node_id), <<>>)

\* remove_node that cascades only to the connections leaving the node
remove_node_outputs_only(self, node_id) ==
    IF node_id \notin DOMAIN self.node_to_index
    THEN Err(self, "NodeNotFound", <<node_id>>)
    ELSE LET index == self.node_to_index[node_id]
             keep == {c \in DOMAIN self.connections :
                        self.connections[c].from_node # node_id}
             s1 == [self EXCEPT
                      !.node_to_index = Restrict(@, DOMAIN @ \ {node_id}),
                      !.index_to_node = Restrict(@, DOMAIN @ \ {index}),
                      !.connections = Restrict(@, keep),
                      !.graph = graph_remove_node(@, index),
                      !.dirty_nodes = @ \ {node_id}]
         IN Ok(update_evaluation_order(s1), <<>>)

\* remove_node that leaves the removed id in the dirty set
remove_node_stays_dirty(self, node_id) ==
    IF node_id \notin DOMAIN self.node_to_index
    THEN Err(self, "NodeNotFound", <<node_id>>)
    ELSE LET index == self.node_to_index[node_id]
             keep == {c \in DOMAIN self.connections :
                        self.connections[c].from_node # node_id
                        /\ self.connections[c].to_node # node_id}
             s1 == [self EXCEPT
                      !.node_to_index = Restrict(@, DOMAIN @ \ {node_id}),
                      !.index_to_node = Restrict(@, DOMAIN @ \ {index}),
                      !.connections = Restrict(@, keep),
                      !.graph = graph_remove_node(@, index)]
         IN Ok(update_evaluation_order(s1), <<>>)

\* remove_node that also drops the connections of the nodes it was wired to
remove_node_drops_neighbours(self, node_id) ==
    IF node_id \notin DOMAIN self.node_to_index
    THEN Err(self, "NodeNotFound", <<node_id>>)
    ELSE LET index == self.node_to_index[node_id]
             own == {c \in DOMAIN self.connections :
                        self.connections[c].from_node = node_id
                        \/ self.connections[c].to_node = node_id}
             near == {self.connections[c].from_node : c \in own}
                        \cup {self.connections[c].to_node : c \in own}
             keep == {c \in DOMAIN self.connections :
                        self.connections[c].from_node \notin near
                        /\ self.connections[c].to_node \notin near}
             s1 == [self EXCEPT
                      !.node_to_index = Restrict(@, DOMAIN @ \ {node_id}),
                      !.index_to_node = Restrict(@, DOMAIN @ \ {index}),
                      !.connections = Restrict(@, keep),
                      !.graph = graph_remove_node(@, index),
                      !.dirty_nodes = @ \ {node_id}]
         IN Ok(update_evaluation_order(s1), <<>>)

\* pub fn remove_node
remove_node(self, node_id) ==
    IF node_id \notin DOMAIN self.node_to_index
    THEN Err(self, "NodeNotFound", <<node_id>>)
    ELSE LET index == self.node_to_index[node_id]
             keep == {c \in DOMAIN self.connections :
                        self.connections[c].from_node # node_id
                        /\ self.connections[c].to_node # node_id}
             s1 == [self EXCEPT
                      !.node_to_index = Restrict(@, DOMAIN @ \ {node_id}),
                      !.index_to_node = Restrict(@, DOMAIN @ \ {index}),
                      !.connections = Restrict(@, keep),
                      !.graph = graph_remove_node(@, index),
                      !.dirty_nodes = @ \ {node_id}]
         IN Ok(update_evaluation_order(s1), <<>>)

\* add_connection that inserts the edge and the registry entry before the
\* cycle check and does not take them back
add_connection_checks_late(self, from_node, from_port, to_node, to_port, data_type, connection_id) ==
    IF from_node \notin DOMAIN self.node_to_index
    THEN Err(self, "NodeNotFound", <<from_node>>)
    ELSE IF to_node \notin DOMAIN self.node_to_index
    THEN Err(self, "NodeNotFound", <<to_node>>)
    ELSE LET from_index == self.node_to_index[from_node]
             to_index == self.node_to_index[to_node]
             connection == [id |-> connection_id,
                            from_node |-> from_node, from_port |-> from_port,
                            to_node |-> to_node, to_port |-> to_port,
                            data_type |-> data_type]
             s1 == [self EXCEPT
                      !.graph = graph_add_edge(@, from_index, to_index, connection_id),
                      !.connections = Put(@, connection_id, connection)]
         IN IF add_edge_panics(self.graph, from_index, to_index)
            THEN Panic(self)
            ELSE IF would_create_cycle(self.graph, from_index, to_index)
            THEN Err(s1, "CycleDetected", <<>>)
            ELSE Ok(update_evaluation_order(mark_dirty(s1, to_node)),
                    <<connection_id>>)

\* add_connection that reports from_node when to_node is the missing one
add_connection_names_from(self, from_node, from_port, to_node, to_port, data_type, connection_id) ==
    IF from_node \notin DOMAIN self.node_to_index
       \/ to_node \notin DOMAIN self.node_to_index
    THEN Err(self, "NodeNotFound", <<from_node>>)
    ELSE LET from_index == self.node_to_index[from_node]
             to_index == self.node_to_index[to_node]
             connection == [id |-> connection_id,
                            from_node |-> from_node, from_port |-> from_port,
                            to_node |-> to_node, to_port |-> to_port,
                            data_type |-> data_type]
             s1 == [self EXCEPT
                      !.graph = graph_add_edge(@, from_index, to_index, connection_id),
                      !.connections = Put(@, connection_id, connection)]
         IN IF would_create_cycle(self.graph, from_index, to_index)
            THEN Err(self, "CycleDetected", <<>>)
            ELSE IF add_edge_panics(self.graph, from_index, to_index)
            THEN Panic(self)
            ELSE Ok(update_evaluation_order(mark_dirty(s1, to_node)),
                    <<connection_id>>)

\* add_connection that marks to_node dirty before the cycle check and leaves
\* it dirty when the connection is refused
add_connection_marks_early(self, from_node, from_port, to_node, to_port, data_type, connection_id) ==
    IF from_node \notin DOMAIN self.node_to_index
    THEN Err(self, "NodeNotFound", <<from_node>>)
    ELSE IF to_node \notin DOMAIN self.node_to_index
    THEN Err(self, "NodeNotFound", <<to_node>>)
    ELSE LET from_index == self.node_to_index[from_node]
             to_index == self.node_to_index[to_node]
             connection == [id |-> connection_id,
                            from_node |-> from_node, from_port |-> from_port,
                            to_node |-> to_node, to_port |-> to_port,
                            data_type |-> data_type]
             s0 == mark_dirty(self, to_node)
             s1 == [s0 EXCEPT
                      !.graph = graph_add_edge(@, from_index, to_index, connection_id),
                      !.connections = Put(@, connection_id, connection)]
         IN IF would_create_cycle(self.graph, from_index, to_index)
            THEN Err(s0, "CycleDetected", <<>>)
            ELSE IF add_edge_panics(self.graph, from_index, to_index)
            THEN Panic(self)
            ELSE Ok(update_evaluation_order(mark_dirty(s1, to_node)),
                    <<connection_id>>)

\* pub fn add_connection; connection_id is the value of ConnectionId::new()
add_connection(self, from_node, from_port, to_node, to_port, data_type, connection_id) ==
    IF from_node \notin DOMAIN self.node_to_index
    THEN Err(self, "NodeNotFound", <<from_node>>)
    ELSE IF to_node \notin DOMAIN self.node_to_index
    THEN Err(self, "NodeNotFound", <<to_node>>)
    ELSE LET from_index == self.node_to_index[from_node]
             to_index == self.node_to_index[to_node]
             connection == [id |-> connection_id,
                            from_node |-> from_node, from_port |-> from_port,
                            to_node |-> to_node, to_port |-> to_port,
                            data_type |-> data_type]
             s1 == [self EXCEPT
                      !.graph = graph_add_edge(@, from_index, to_index, connection_id),
                      !.connections = Put(@, connection_id, connection)]
         IN IF would_create_cycle(self.graph, from_index, to_index)
            THEN Err(self, "CycleDetected", <<>>)
            ELSE IF add_edge_panics(self.graph, from_index, to_index)
            THEN Panic(self)
            ELSE Ok(update_evaluation_order(mark_dirty(s1, to_node)),
                    <<connection_id>>)

\* pub fn remove_connection; indexing node_to_index with a missing key panics
remove_connection(self, connection_id) ==
    IF connection_id \notin DOMAIN self.connections
    THEN Err(self, "ConnectionNotFound", <<connection_id>>)
    ELSE LET connection == self.connections[connection_id]
             s1 == [self EXCEPT !.connections = Restrict(@, DOMAIN @ \ {connection_id})]
         IN IF connection.from_node \notin DOMAIN self.node_to_index
               \/ connection.to_node \notin DOMAIN self.node_to_index
            THEN Panic(s1)
            ELSE LET from_index == self.node_to_index[connection.from_node]
                     to_index == self.node_to_index[connection.to_node]
                     edge_index == find_edge(self.graph, from_index, to_index)
                     s2 == IF edge_index # 0
                           THEN [s1 EXCEPT !.graph = graph_remove_edge(@, edge_index)]
                           ELSE s1
                 IN Ok(update_evaluation_order(mark_dirty(s2, connection.to_node)),
                       <<>>)

\* pub fn get_connections_for_node / get_input_connections / get_output_connections
get_connections_for_node(self, node_id) ==
    {self.connections[c] : c \in {d \in DOMAIN self.connections :
        self.connections[d].from_node = node_id \/ self.connections[d].to_node = node_id}}

get_input_connections(self, node_id) ==
    {self.connections[c] : c \in {d \in DOMAIN self.connections :
        self.connections[d].to_node = node_id}}

\* get_output_connections that filters on the wrong endpoint
get_output_connections_by_to_node(self, node_id) ==
    {self.connections[c] : c \in {d \in DOMAIN self.connections :
        self.connections[d].to_node = node_id}}

get_output_connections(self, node_id) ==
    {self.connections[c] : c \in {d \in DOMAIN self.connections :
        self.connections[d].from_node = node_id}}

\* ------------------------------------------------ the loops, step by step
\* The three loops again, counting their iterations down from a budget: the
\* result is the budget left when the loop ends, or -1 when the budget runs
\* out first.

\* fn would_create_cycle: one iteration per stack.pop()
RECURSIVE would_create_cycle_budget(_, _, _, _, _)
would_create_cycle_budget(g, from_index, stack, visited, budget) ==
    IF stack = <<>> THEN budget
    ELSE IF budget = 0 THEN -1
    ELSE LET current == stack[Len(stack)]
             rest == SubSeq(stack, 1, Len(stack) - 1)
         IN IF current = from_index THEN budget - 1
            ELSE IF current \in visited
            THEN would_create_cycle_budget(g, from_index, rest, visited, budget - 1)
            ELSE LET seen == visited \cup {current}
                     push == SelectSeq(neighbors_directed(g, current, "Outgoing"),
                                       LAMBDA n : n \notin seen)
                 IN would_create_cycle_budget(g, from_index, rest \o push, seen,
                                              budget - 1)

\* fn update_evaluation_order: one iteration per queue.pop_front()
RECURSIVE kahn_loop_budget(_, _, _, _)
kahn_loop_budget(g, in_degree, queue, budget) ==
    IF queue = <<>> THEN budget
    ELSE IF budget = 0 THEN -1
    ELSE LET r == kahn_relax(neighbors_directed(g, Head(queue), "Outgoing"),
                             in_degree, Tail(queue))
         IN kahn_loop_budget(g, r.in_degree, r.queue, budget - 1)

update_evaluation_order_budget(self, budget) ==
    LET g == self.graph
        idxs == node_indices(g)
        in_degree == [i \in Range(idxs) |->
                        Len(neighbors_directed(g, i, "Incoming"))]
        queue == SelectSeq(idxs, LAMBDA i : in_degree[i] = 0)
    IN kahn_loop_budget(g, in_degree, queue, budget)

\* fn propagate_dirty_downstream: one unit per call of the function
RECURSIVE propagate_dirty_downstream_budget(_, _, _, _)
RECURSIVE propagate_each_budget(_, _, _, _)
propagate_each_budget(self, dirty, downstream_nodes, budget) ==
    IF budget < 0 \/ downstream_nodes = <<>>
    THEN [dirty |-> dirty, budget |-> budget]
    ELSE LET d == Head(downstream_nodes)
         IN IF d \notin dirty
            THEN LET r == propagate_dirty_downstream_budget(self, dirty \cup {d},
                                                            d, budget)
                 IN propagate_each_budget(self, r.dirty, Tail(downstream_nodes),
                                          r.budget)
            ELSE propagate_each_budget(self, dirty, Tail(downstream_nodes), budget)

propagate_dirty_downstream_budget(self, dirty, node_id, budget) ==
    IF budget <= 0 THEN [dirty |-> dirty, budget |-> -1]
    ELSE IF node_id \in DOMAIN self.node_to_index
    THEN LET index == self.node_to_index[node_id]
             nbrs == neighbors_directed(self.graph, index, "Outgoing")
             mapped == SelectSeq(nbrs, LAMBDA i : i \in DOMAIN self.index_to_node)
             downstream_nodes == [k \in 1..Len(mapped) |-> self.index_to_node[mapped[k]]]
         IN propagate_each_budget(self, dirty, downstream_nodes, budget - 1)
    ELSE [dirty |-> dirty, budget |-> budget - 1]

\* ------------------------------------------------- the steps inside a call
\* The statements of each mutating method, grouped into the topology and
\* registry mutation, the dirty-set update and the recomputation of the
\* order, in the order the method executes them; each entry holds the
\* resource after the group. A call that returns an error or panics has no
\* entry.
Phase(name, self) == [phase |-> name, self |-> self]

add_node_phases(self, node_id) ==
    IF node_id \in DOMAIN self.node_to_index THEN <<>>
    ELSE LET index == node_count(self.graph)
             s1 == [self EXCEPT
                      !.graph = graph_add_node(@, node_id),
                      !.node_to_index = Put(@, node_id, index),
                      !.index_to_node = Put(@, index, node_id)]
             s2 == update_evaluation_order(s1)
             s3 == mark_dirty(s2, node_id)
         IN <<Phase("topology", s1), Phase("order", s2), Phase("dirty", s3)>>

remove_node_phases(self, node_id) ==
    IF node_id \notin DOMAIN self.node_to_index THEN <<>>
    ELSE LET index == self.node_to_index[node_id]
             keep == {c \in DOMAIN self.connections :
                        self.connections[c].from_node # node_id
                        /\ self.connections[c].to_node # node_id}
             s1 == [self EXCEPT
                      !.node_to_index = Restrict(@, DOMAIN @ \ {node_id}),
                      !.index_to_node = Restrict(@, DOMAIN @ \ {index}),
                      !.connections = Restrict(@, keep),
                      !.graph = graph_remove_node(@, index)]
             s2 == [s1 EXCEPT !.dirty_nodes = @ \ {node_id}]
             s3 == update_evaluation_order(s2)
         IN <<Phase("topology", s1), Phase("dirty", s2), Phase("order", s3)>>

\* add_connection with the dirty update and the recomputation swapped
add_connection_phases_order_first(self, from_node, from_port, to_node, to_port, data_type, connection_id) ==
    IF \/ from_node \notin DOMAIN self.node_to_index
       \/ to_node \notin DOMAIN self.node_to_index
       \/ would_create_cycle(self.graph, self.node_to_index[from_node],
                             self.node_to_index[to_node])
       \/ add_edge_panics(self.graph, self.node_to_index[from_node],
                          self.node_to_index[to_node])
    THEN <<>>
    ELSE LET connection == [id |-> connection_id,
                            from_node |-> from_node, from_port |-> from_port,
                            to_node |-> to_node, to_port |-> to_port,
                            data_type |-> data_type]
             s1 == [self EXCEPT
                      !.graph = graph_add_edge(@, self.node_to_index[from_node],
                                               self.node_to_index[to_node], connection_id),
                      !.connections = Put(@, connection_id, connection)]
             s2 == update_evaluation_order(s1)
             s3 == mark_dirty(s2, to_node)
         IN <<Phase("topology", s1), Phase("order", s2), Phase("dirty", s3)>>

add_connection_phases(self, from_node, from_port, to_node, to_port, data_type, connection_id) ==
    IF \/ from_node \notin DOMAIN self.node_to_index
       \/ to_node \notin DOMAIN self.node_to_index
       \/ would_create_cycle(self.graph, self.node_to_index[from_node],
                             self.node_to_index[to_node])
       \/ add_edge_panics(self.graph, self.node_to_index[from_node],
                          self.node_to_index[to_node])
    THEN <<>>
    ELSE LET connection == [id |-> connection_id,
                            from_node |-> from_node, from_port |-> from_port,
                            to_node |-> to_node, to_port |-> to_port,
                            data_type |-> data_type]
             s1 == [self EXCEPT
                      !.graph = graph_add_edge(@, self.node_to_index[from_node],
                                               self.node_to_index[to_node], connection_id),
                      !.connections = Put(@, connection_id, connection)]
             s2 == mark_dirty(s1, to_node)
             s3 == update_evaluation_order(s2)
         IN <<Phase("topology", s1), Phase("dirty", s2), Phase("order", s3)>>

remove_connection_phases(self, connection_id) ==
    IF \/ connection_id \notin DOMAIN self.connections
       \/ self.connections[connection_id].from_node \notin DOMAIN self.node_to_index
       \/ self.connections[connection_id].to_node \notin DOMAIN self.node_to_index
    THEN <<>>
    ELSE LET connection == self.connections[connection_id]
             edge_index == find_edge(self.graph,
                                     self.node_to_index[connection.from_node],
                                     self.node_to_index[connection.to_node])
             s1 == [self EXCEPT
                      !.connections = Restrict(@, DOMAIN @ \ {connection_id}),
                      !.graph = IF edge_index # 0
                                THEN graph_remove_edge(@, edge_index) ELSE @]
             s2 == mark_dirty(s1, connection.to_node)
             s3 == update_evaluation_order(s2)
         IN <<Phase("topology", s1), Phase("dirty", s2), Phase("order", s3)>>

\* ------------------------------------------------------------ the machine
\* The NodeGraph resource as one value
Self ==
    [graph |-> graph,
     node_to_index |-> node_to_index,
     index_to_node |-> index_to_node,
     connections |-> connections,
     evaluation_order |-> evaluation_order,
     dirty_nodes |-> dirty_nodes]

\* The resource after a call, and the call with what it returned
Commit(op, args, r) ==
    /\ graph' = r.self.graph
    /\ node_to_index' = r.self.node_to_index
    /\ index_to_node' = r.self.index_to_node
    /\ connections' = r.self.connections
    /\ evaluation_order' = r.self.evaluation_order
    /\ dirty_nodes' = r.self.dirty_nodes
    /\ calls' = calls + 1
    /\ ret' = [op |-> op, args |-> args, tag |-> r.tag, val |-> r.val]

Min(a, b) == IF a < b THEN a ELSE b

Max(a, b) == IF a < b THEN b ELSE a

\* NodeId::new() is a fresh UUID and the engine only compares ids: the ids it
\* has not been shown yet are interchangeable, so a caller passes an id the
\* engine has been shown or the next one it has not
Pick(k) == 1..Min(k + 1, MaxNodeId)

\* A panic ends the program; a behaviour makes at most MaxOps calls
Running == ret.tag # "Panic" /\ calls < MaxOps

Init ==
    /\ graph = NodeGraph_default.graph
    /\ node_to_index = NodeGraph_default.node_to_index
    /\ index_to_node = NodeGraph_default.index_to_node
    /\ connections = NodeGraph_default.connections
    /\ evaluation_order = NodeGraph_default.evaluation_order
    /\ dirty_nodes = NodeGraph_default.dirty_nodes
    /\ issued = 0
    /\ known = 0
    /\ calls = 0
    /\ ret = [op |-> "new", args |-> <<>>, tag |-> "Ok", val |-> <<>>]

AddNode(node_id) ==
    /\ Running
    /\ node_id \in Pick(known)
    /\ Commit("add_node", <<node_id>>, add_node(Self, node_id))
    /\ known' = Max(known, node_id)
    /\ UNCHANGED issued

RemoveNode(node_id) ==
    /\ Running
    /\ node_id \in Pick(known)
    /\ Commit("remove_node", <<node_id>>, remove_node(Self, node_id))
    /\ known' = Max(known, node_id)
    /\ UNCHANGED issued

\* ConnectionId::new() is drawn only when both endpoints exist and the cycle
\* check passed; the ids are issued in order and never twice
AddConnection(from_node, from_port, to_node, to_port, data_type) ==
    /\ Running
    /\ from_node \in Pick(known)
    /\ to_node \in Pick(Max(known, from_node))
    /\ known' = Max(known, Max(from_node, to_node))
    /\ LET r == add_connection(Self, from_node, from_port, to_node, to_port,
                               data_type, issued + 1)
       IN /\ Commit("add_connection", <<from_node, from_port, to_node, to_port, data_type>>, r)
          /\ issued' = IF r.tag \in {"Ok", "Panic"} THEN issued + 1 ELSE issued

\* The caller passes an id that was issued, or one that never was
RemoveConnection(connection_id) ==
    /\ Running
    /\ connection_id \in 1..(issued + 1)
    /\ Commit("remove_connection", <<connection_id>>, remove_connection(Self, connection_id))
    /\ UNCHANGED <<issued, known>>

MarkDirty(node_id) ==
    /\ Running
    /\ node_id \in Pick(known)
    /\ Commit("mark_dirty", <<node_id>>, Ok(mark_dirty(Self, node_id), <<>>))
    /\ known' = Max(known, node_id)
    /\ UNCHANGED issued

ClearDirty(node_id) ==
    /\ Running
    /\ node_id \in Pick(known)
    /\ Commit("clear_dirty", <<node_id>>, Ok(clear_dirty(Self, node_id), <<>>))
    /\ known' = Max(known, node_id)
    /\ UNCHANGED issued

Next ==
    \/ \E n \in NodeIds : AddNode(n)
    \/ \E n \in NodeIds : RemoveNode(n)
    \/ \E f \in NodeIds, t \in NodeIds, fp \in Ports, tp \in Ports, dt \in DataTypes :
          AddConnection(f, fp, t, tp, dt)
    \/ \E c \in ConnIds : RemoveConnection(c)
    \/ \E n \in NodeIds : MarkDirty(n)
    \/ \E n \in NodeIds : ClearDirty(n)

Spec == Init /\ [][Next]_vars

\* The three queries take &self: they return their result and leave the
\* resource as it is; the returned Vec is kept as the set of its elements
GetConnectionsForNode(node_id) ==
    /\ Running
    /\ node_id \in Pick(known)
    /\ Commit("get_connections_for_node", <<node_id>>,
              Ok(Self, <<get_connections_for_node(Self, node_id)>>))
    /\ known' = Max(known, node_id)
    /\ UNCHANGED issued

\* A get_input_connections call that marks the node it read as clean
GetInputConnections_consuming(node_id) ==
    /\ Running
    /\ node_id \in Pick(known)
    /\ Commit("get_input_connections", <<node_id>>,
              Ok(clear_dirty(Self, node_id), <<get_input_connections(Self, node_id)>>))
    /\ known' = Max(known, node_id)
    /\ UNCHANGED issued

GetInputConnections(node_id) ==
    /\ Running
    /\ node_id \in Pick(known)
    /\ Commit("get_input_connections", <<node_id>>,
              Ok(Self, <<get_input_connections(Self, node_id)>>))
    /\ known' = Max(known, node_id)
    /\ UNCHANGED issued

GetOutputConnections(node_id) ==
    /\ Running
    /\ node_id \in Pick(known)
    /\ Commit("get_output_connections", <<node_id>>,
              Ok(Self, <<get_output_connections(Self, node_id)>>))
    /\ known' = Max(known, node_id)
    /\ UNCHANGED issued

\* The mutations interleaved with the queries
NextQuery ==
    \/ Next
    \/ \E n \in NodeIds : GetConnectionsForNode(n)
    \/ \E n \in NodeIds : GetInputConnections(n)
    \/ \E n \in NodeIds : GetOutputConnections(n)

SpecQuery == Init /\ [][NextQuery]_vars

\* ---------------------------------------- calls in steps, with the reader
\* A mutating call seen one statement group at a time. The call holds the
\* resource as &mut self (through ResMut<NodeGraph>) from its first
\* statement to its return; the groups still to run and the result are the
\* call's continuation, kept in ret while the call is under way.
InCall == ret.tag = "InCall"

BeginCall(op, args, r, ph) ==
    /\ Running
    /\ ~InCall
    /\ IF ph = <<>>
       THEN Commit(op, args, r)
       ELSE /\ graph' = ph[1].self.graph
            /\ node_to_index' = ph[1].self.node_to_index
            /\ index_to_node' = ph[1].self.index_to_node
            /\ connections' = ph[1].self.connections
            /\ evaluation_order' = ph[1].self.evaluation_order
            /\ dirty_nodes' = ph[1].self.dirty_nodes
            /\ calls' = calls + 1
            /\ ret' = [op |-> op, args |-> args, tag |-> "InCall",
                       val |-> <<Tail(ph), r>>]

BeginAddNode(node_id) ==
    /\ node_id \in Pick(known)
    /\ BeginCall("add_node", <<node_id>>, add_node(Self, node_id),
                 add_node_phases(Self, node_id))
    /\ known' = Max(known, node_id)
    /\ UNCHANGED issued

BeginRemoveNode(node_id) ==
    /\ node_id \in Pick(known)
    /\ BeginCall("remove_node", <<node_id>>, remove_node(Self, node_id),
                 remove_node_phases(Self, node_id))
    /\ known' = Max(known, node_id)
    /\ UNCHANGED issued

BeginAddConnection(from_node, from_port, to_node, to_port, data_type) ==
    /\ from_node \in Pick(known)
    /\ to_node \in Pick(Max(known, from_node))
    /\ known' = Max(known, Max(from_node, to_node))
    /\ LET r == add_connection(Self, from_node, from_port, to_node, to_port,
                               data_type, issued + 1)
       IN /\ BeginCall("add_connection",
                       <<from_node, from_port, to_node, to_port, data_type>>, r,
                       add_connection_phases(Self, from_node, from_port, to_node,
                                             to_port, data_type, issued + 1))
          /\ issued' = IF r.tag \in {"Ok", "Panic"} THEN issued + 1 ELSE issued

BeginRemoveConnection(connection_id) ==
    /\ connection_id \in 1..(issued + 1)
    /\ BeginCall("remove_connection", <<connection_id>>,
                 remove_connection(Self, connection_id),
                 remove_connection_phases(Self, connection_id))
    /\ UNCHANGED <<issued, known>>

\* The call under way runs its next statement group; after the last one it
\* returns
ContinueCall ==
    /\ InCall
    /\ LET rest == ret.val[1]
           r == ret.val[2]
       IN /\ graph' = rest[1].self.graph
          /\ node_to_index' = rest[1].self.node_to_index
          /\ index_to_node' = rest[1].self.index_to_node
          /\ connections' = rest[1].self.connections
          /\ evaluation_order' = rest[1].self.evaluation_order
          /\ dirty_nodes' = rest[1].self.dirty_nodes
          /\ ret' = IF Len(rest) = 1
                    THEN [op |-> ret.op, args |-> ret.args, tag |-> r.tag, val |-> r.val]
                    ELSE [ret EXCEPT !.val = <<Tail(rest), r>>]
    /\ UNCHANGED <<issued, known, calls>>

\* The nodes evaluate_node_graph logs: the dirty ones, in evaluation order
evaluate_node_graph(self) ==
    SelectSeq(self.evaluation_order, LAMBDA node_id : node_id \in self.dirty_nodes)

\* evaluate_node_graph reading the resource whatever a call is doing to it
EvaluateNodeGraph_unsynchronised ==
    /\ ret.tag # "Panic"
    /\ calls < MaxOps
    /\ ret' = [op |-> "evaluate_node_graph", args |-> <<>>, tag |-> "Ok",
               val |-> <<evaluate_node_graph(Self)>>]
    /\ calls' = calls + 1
    /\ UNCHANGED <<graph, node_to_index, index_to_node, connections,
                   evaluation_order, dirty_nodes, issued, known>>

\* The system takes ResMut<NodeGraph>: it runs only while no call holds the
\* resource
EvaluateNodeGraph ==
    /\ Running
    /\ ~InCall
    /\ ret' = [op |-> "evaluate_node_graph", args |-> <<>>, tag |-> "Ok",
               val |-> <<evaluate_node_graph(Self)>>]
    /\ calls' = calls + 1
    /\ UNCHANGED <<graph, node_to_index, index_to_node, connections,
                   evaluation_order, dirty_nodes, issued, known>>

NextSteps ==
    \/ \E n \in NodeIds : BeginAddNode(n)
    \/ \E n \in NodeIds : BeginRemoveNode(n)
    \/ \E f \in NodeIds, t \in NodeIds, fp \in Ports, tp \in Ports, dt \in DataTypes :
          BeginAddConnection(f, fp, t, tp, dt)
    \/ \E c \in ConnIds : BeginRemoveConnection(c)
    \/ ContinueCall
    \/ \E n \in NodeIds : ~InCall /\ MarkDirty(n)
    \/ \E n \in NodeIds : ~InCall /\ ClearDirty(n)
    \/ EvaluateNodeGraph

SpecSteps == Init /\ [][NextSteps]_vars

\* ------------------------------------------------------------ vocabulary
\* The live nodes: the keys add_node and remove_node test
Live == DOMAIN node_to_index

Registered == {connections[c] : c \in DOMAIN connections}

\* The edges the registry induces: from_node -> to_node of every connection
ConnEdges == {<<c.from_node, c.to_node>> : c \in Registered}

Successors(E, S) == {e[2] : e \in {x \in E : x[1] \in S}}

RECURSIVE ReachFrom(_, _)
ReachFrom(E, S) ==
    LET T == S \cup Successors(E, S)
    IN IF T = S THEN S ELSE ReachFrom(E, T)

\* A directed path of at least one edge from a to b
HasPath(E, a, b) == b \in ReachFrom(E, Successors(E, {a}))

Position(order, n) == CHOOSE i \in 1..Len(order) : order[i] = n

Occurrences(order, n) == Cardinality({i \in 1..Len(order) : order[i] = n})

\* The arena edges that touch a node whose payload is n
ArenaEdgesAt(g, n) ==
    {i \in 1..Len(g.edges) :
        g.nodes[g.edges[i].a + 1] = n \/ g.nodes[g.edges[i].b + 1] = n}

Structural == {"add_node", "remove_node", "add_connection", "remove_connection"}

\* ---------------------------------------------------------------- claims

\* C1: the directed graph of the live connections (from_node -> to_node of
\* every registry entry) has no directed cycle, in every reachable state.
C1_Acyclic == \A n \in NodeIds : ~HasPath(ConnEdges, n, n)

\* C2: after every successful structural mutation, evaluation_order() holds
\* every live node exactly once and no node that is not live.
C2_OrderComplete ==
    (ret.op \in Structural /\ ret.tag = "Ok") =>
        /\ \A n \in Live : Occurrences(evaluation_order, n) = 1
        /\ Range(evaluation_order) \subseteq Live

\* C3: for every live connection a -> b, both a and b occur in
\* evaluation_order() and a stands strictly before b.
C3_TopologicalValidity ==
    \A c \in Registered :
        /\ c.from_node \in Range(evaluation_order)
        /\ c.to_node \in Range(evaluation_order)
        /\ Position(evaluation_order, c.from_node)
             < Position(evaluation_order, c.to_node)

\* C4: an add_connection call that returns CycleDetected leaves the connection
\* registry and the graph's edges as they were before the call.
C4_CycleDetectedCommitsNothing ==
    [][(ret'.op = "add_connection" /\ ret'.tag = "CycleDetected")
         => (connections' = connections /\ graph' = graph)]_vars

C4_Witness ==
    /\ ret.op = "add_connection"
    /\ ret.tag = "CycleDetected"
    /\ ret.args[1] # ret.args[3]
    /\ Cardinality(DOMAIN connections) = 2
    /\ HasPath(ConnEdges, ret.args[3], ret.args[1])

\* C5: for live from and to, add_connection returns CycleDetected exactly when
\* from = to or a path of live connections leads from to to from; otherwise
\* the call succeeds.
C5_CycleGuardExact ==
    ret.tag # "Panic" =>
      \A f \in Live, t \in Live, fp \in Ports, tp \in Ports, dt \in DataTypes :
        LET r == add_connection(Self, f, fp, t, tp, dt, issued + 1)
            closes == f = t \/ HasPath(ConnEdges, t, f)
        IN IF closes THEN r.tag = "CycleDetected" ELSE r.tag = "Ok"

\* C6: after a successful remove_node(n) no registered connection has n as
\* an endpoint, the graph has no edge at n, and the three queries on n
\* return nothing.
C6_CascadeOnRemoval ==
    (ret.op = "remove_node" /\ ret.tag = "Ok") =>
        LET n == ret.args[1]
        IN /\ \A c \in Registered : c.from_node # n /\ c.to_node # n
           /\ ArenaEdgesAt(graph, n) = {}
           /\ get_input_connections(Self, n) = {}
           /\ get_output_connections(Self, n) = {}
           /\ get_connections_for_node(Self, n) = {}

\* C7: every registered connection has both endpoints among the live nodes.
C7_NoDanglingConnection ==
    \A c \in Registered : c.from_node \in Live /\ c.to_node \in Live

C7_Witness ==
    /\ ret.op = "remove_node"
    /\ ret.tag = "Ok"
    /\ issued = 2
    /\ Cardinality(DOMAIN connections) = 1
    /\ Cardinality(Live) = 2

\* C8: every call returns Ok or a typed error; none panics.
C8_NoPanic == ret.tag # "Panic"

\* C9: add_node(id) on a live id returns NodeAlreadyExists(id) and changes
\* nothing; otherwise it returns Ok and id is then live, dirty, in the
\* evaluation order, and without input or output connections.
C9_AddNode ==
    [][ret'.op = "add_node" =>
         LET id == ret'.args[1]
         IN IF id \in Live
            THEN /\ ret'.tag = "NodeAlreadyExists"
                 /\ ret'.val = <<id>>
                 /\ Self' = Self
            ELSE /\ ret'.tag = "Ok"
                 /\ id \in Live'
                 /\ id \in dirty_nodes'
                 /\ id \in Range(evaluation_order')
                 /\ get_input_connections(Self', id) = {}
                 /\ get_output_connections(Self', id) = {}]_vars

C9_Witness ==
    /\ ret.op = "add_node"
    /\ ret.tag = "Ok"
    /\ Cardinality(Live) = 3
    /\ connections # <<>>

\* C10: add_connection with an endpoint that is not live returns NodeNotFound
\* naming a missing endpoint, and the numbers of connections and of graph
\* edges are what they were.
C10_MissingEndpoint ==
    [][(ret'.op = "add_connection"
         /\ (ret'.args[1] \notin Live \/ ret'.args[3] \notin Live)) =>
            /\ ret'.tag = "NodeNotFound"
            /\ Len(ret'.val) = 1
            /\ ret'.val[1] \in {ret'.args[1], ret'.args[3]} \ Live
            /\ Cardinality(DOMAIN connections') = Cardinality(DOMAIN connections)
            /\ Len(graph'.edges) = Len(graph.edges)]_vars

C10_Witness ==
    /\ ret.op = "add_connection"
    /\ ret.tag = "NodeNotFound"
    /\ ret.args[1] \in Live
    /\ ret.args[3] \notin Live
    /\ connections # <<>>

\* The number of arena edges from a node with payload a to one with payload b
ArenaEdgeCount(g, a, b) ==
    Cardinality({i \in 1..Len(g.edges) :
        g.nodes[g.edges[i].a + 1] = a /\ g.nodes[g.edges[i].b + 1] = b})

\* C11: remove_node(id) returns NodeNotFound(id) when id is not live; when it
\* returns Ok, id is no longer live, not dirty, not in the evaluation order,
\* and add_node(id) then succeeds.
C11_RemoveNode ==
    [][ret'.op = "remove_node" =>
         LET id == ret'.args[1]
         IN IF id \notin Live
            THEN ret'.tag = "NodeNotFound" /\ ret'.val = <<id>>
            ELSE /\ ret'.tag = "Ok"
                 /\ id \notin Live'
                 /\ id \notin dirty_nodes'
                 /\ id \notin Range(evaluation_order')
                 /\ add_node(Self', id).tag = "Ok"]_vars

C11_Witness ==
    /\ ret.op = "remove_node"
    /\ ret.tag = "Ok"
    /\ ret.args[1] \notin Live
    /\ Live # {}
    /\ dirty_nodes # {}
    /\ issued >= 1

\* C12: remove_connection(c) returns ConnectionNotFound(c) when c is not
\* registered; when it returns Ok, c is gone from the registry, exactly one
\* graph edge from c's from_node to c's to_node has been removed, every other
\* connection is still registered, and c's to_node is dirty.
C12_RemoveConnection ==
    [][ret'.op = "remove_connection" =>
         LET c == ret'.args[1]
         IN IF c \notin DOMAIN connections
            THEN ret'.tag = "ConnectionNotFound" /\ ret'.val = <<c>>
            ELSE LET a == connections[c].from_node
                     b == connections[c].to_node
                 IN /\ ret'.tag = "Ok"
                    /\ c \notin DOMAIN connections'
                    /\ ArenaEdgeCount(graph', a, b) = ArenaEdgeCount(graph, a, b) - 1
                    /\ Len(graph'.edges) = Len(graph.edges) - 1
                    /\ \A d \in DOMAIN connections \ {c} :
                          d \in DOMAIN connections' /\ connections'[d] = connections[d]
                    /\ b \in dirty_nodes']_vars

\* The edges induced by the registry of a NodeGraph value
ConnEdgesOf(self) ==
    {<<self.connections[c].from_node, self.connections[c].to_node>> :
        c \in DOMAIN self.connections}

\* C13: right after mark_dirty(n) on a live n, every node reachable from n by
\* following the live connections forward is in dirty_nodes(), whatever was
\* dirty or clean before the call.
C13_MarkDirtyReachesDescendants ==
    (ret.op = "mark_dirty" /\ ret.args[1] \in Live) =>
        ReachFrom(ConnEdges, {ret.args[1]}) \subseteq dirty_nodes

\* C14: after a successful add_connection(from, _, to, _, _), to and every
\* node reachable from to are in dirty_nodes().
C14_NewEdgeDirtiesDownstream ==
    ret.tag # "Panic" =>
      \A from_node, to_node \in NodeIds, from_port, to_port \in Ports, data_type \in DataTypes :
        LET r == add_connection(Self, from_node, from_port, to_node, to_port,
                                data_type, issued + 1)
        IN r.tag = "Ok" =>
             ReachFrom(ConnEdgesOf(r.self), {to_node}) \subseteq r.self.dirty_nodes

\* C15: after a successful remove_node(n), every live node that had an input
\* connection from n before the call is in dirty_nodes().
C15_RemovalDirtiesDownstream ==
    [][(ret'.op = "remove_node" /\ ret'.tag = "Ok") =>
         \A c \in Registered :
            (c.from_node = ret'.args[1] /\ c.to_node \in Live')
                => c.to_node \in dirty_nodes']_vars

\* C16: a live node that is dirty is still dirty after any single operation
\* other than clear_dirty and remove_node of that node, failed calls included.
C16_DirtyUntilCleared ==
    [][\A m \in Live \cap dirty_nodes :
          ~(ret'.op \in {"clear_dirty", "remove_node"} /\ ret'.args = <<m>>)
              => m \in dirty_nodes']_vars

C16_Witness ==
    /\ ret.op = "remove_node"
    /\ ret.tag = "Ok"
    /\ Live \cap dirty_nodes # {}
    /\ Live \ dirty_nodes # {}
    /\ connections # <<>>

\* C17: clear_dirty(n) removes exactly n from the dirty set and changes
\* nothing else: the dirty status of the other nodes, the connections, the
\* node set and the evaluation order stay as they were.
C17_ClearDirtyExact ==
    [][ret'.op = "clear_dirty" =>
         /\ dirty_nodes' = dirty_nodes \ {ret'.args[1]}
         /\ UNCHANGED <<graph, node_to_index, index_to_node, connections,
                        evaluation_order>>]_vars

C17_Witness ==
    /\ ret.op = "clear_dirty"
    /\ ret.args[1] \in Live \ dirty_nodes
    /\ \E c \in Registered :
          c.from_node = ret.args[1] /\ c.to_node \in dirty_nodes

C19_SelfEdgeRejected ==
    ret.tag # "Panic" =>
      \A a \in Live, p, q \in SomePorts, t \in SomeDataTypes :
        LET r == add_connection(Self, a, p, a, q, t, issued + 1)
        IN r.tag = "CycleDetected" /\ r.self = Self

C19_Witness ==
    /\ ret.op = "add_connection"
    /\ ret.args[1] = ret.args[3]
    /\ ret.args[1] \in Live
    /\ ret.tag = "CycleDetected"
    /\ connections # <<>>

\* C20: when a connection c from a to b is registered, a further
\* add_connection(a, p2, b, q2, t) on different ports succeeds with a
\* different id; both connections are returned by get_output_connections(a)
\* and get_input_connections(b); and after removing either one the other is
\* still registered and add_connection(b, _, a, _, _) still returns
\* CycleDetected.
C20_ParallelConnections ==
    ret.tag # "Panic" =>
      \A c \in DOMAIN connections, p2, q2 \in SomePorts, t \in SomeDataTypes :
        LET a == connections[c].from_node
            b == connections[c].to_node
            r == add_connection(Self, a, p2, b, q2, t, issued + 1)
            both == {c, issued + 1}
        IN (p2 # connections[c].from_port /\ q2 # connections[c].to_port) =>
             /\ r.tag = "Ok"
             /\ r.val = <<issued + 1>>
             /\ issued + 1 # c
             /\ both \subseteq {x.id : x \in get_output_connections(r.self, a)}
             /\ both \subseteq {x.id : x \in get_input_connections(r.self, b)}
             /\ \A gone \in both :
                  LET r2 == remove_connection(r.self, gone)
                  IN /\ r2.tag = "Ok"
                     /\ both \ {gone} \subseteq DOMAIN r2.self.connections
                     /\ \A p, q \in SomePorts :
                          add_connection(r2.self, b, p, a, q, t, issued + 2).tag
                              = "CycleDetected"

QueryOps ==
    {"get_connections_for_node", "get_input_connections", "get_output_connections"}

\* C21: get_output_connections(n) returns exactly the registered connections
\* with from_node = n, get_input_connections(n) exactly those with
\* to_node = n, and get_connections_for_node(n) exactly their union.
C21_QueryResults ==
    ret.op \in QueryOps =>
        LET n == ret.args[1]
            outputs == {c \in Registered : c.from_node = n}
            inputs == {c \in Registered : c.to_node = n}
        IN /\ ret.tag = "Ok"
           /\ ret.op = "get_output_connections" => ret.val[1] = outputs
           /\ ret.op = "get_input_connections" => ret.val[1] = inputs
           /\ ret.op = "get_connections_for_node" => ret.val[1] = inputs \cup outputs

C21_Witness ==
    /\ ret.op = "get_output_connections"
    /\ Cardinality(ret.val[1]) = 2
    /\ {c.to_node : c \in ret.val[1]} = {2, 3}
    /\ get_input_connections(Self, ret.args[1]) = {}
    /\ Cardinality(get_input_connections(Self, 2)) = 1

\* C22: a query changes no part of the engine state (nodes, connections,
\* dirty set, evaluation order), never fails, and returns an empty result
\* for a node identifier that is not live.
C22_QueriesArePure ==
    [][ret'.op \in QueryOps =>
         /\ UNCHANGED <<graph, node_to_index, index_to_node, connections,
                        evaluation_order, dirty_nodes>>
         /\ ret'.tag = "Ok"
         /\ ret'.args[1] \notin Live => ret'.val[1] = {}]_vars

C22_Witness ==
    /\ ret.op \in QueryOps
    /\ ret.args[1] \notin Live
    /\ ret.args[1] <= known
    /\ ret.val[1] = {}
    /\ connections # <<>>
    /\ dirty_nodes # {}

PhaseNames(ph) == [i \in 1..Len(ph) |-> ph[i].phase]

\* A call seen in steps: the first step of a successful mutation is its
\* topology / registry group and touches neither the dirty set nor the
\* order; every later step runs the group that is next in the call's
\* continuation and touches only that group's field; the last step returns
\* Ok with the resource the method yields; a call done in one step is one
\* that failed.
StepsFollowPhases ==
    /\ (~InCall /\ InCall') =>
          /\ ret'.op \in Structural
          /\ dirty_nodes' = dirty_nodes
          /\ evaluation_order' = evaluation_order
    /\ InCall =>
          /\ ret.val[1][1].phase = "dirty" =>
                UNCHANGED <<graph, node_to_index, index_to_node, connections,
                            evaluation_order>>
          /\ ret.val[1][1].phase = "order" =>
                UNCHANGED <<graph, node_to_index, index_to_node, connections,
                            dirty_nodes>>
          /\ ~InCall' => ret'.tag = "Ok" /\ Self' = ret.val[2].self
    /\ (~InCall /\ ~InCall' /\ ret'.op \in Structural /\ calls' = calls + 1)
          => ret'.tag # "Ok"

\* C23 as stated: within each of add_node, remove_node, add_connection and
\* remove_connection the steps happen in the order topology / registry
\* mutation, dirty update, recomputation of the evaluation order; in no
\* operation is the order recomputed before the dirty set is updated.
C23_SideEffectOrder_AsStated ==
    [][/\ StepsFollowPhases
       /\ (~InCall /\ InCall') =>
             PhaseNames(ret'.val[1]) = <<"dirty", "order">>]_vars

\* C23: within remove_node, add_connection and remove_connection the steps
\* happen in the order topology / registry mutation, dirty update,
\* recomputation of the evaluation order; within add_node the order is
\* recomputed after the mutation and before the new node is marked dirty;
\* every successful call has done all three when it returns.
C23_SideEffectOrder ==
    [][/\ StepsFollowPhases
       /\ (~InCall /\ InCall') =>
             PhaseNames(ret'.val[1]) =
                IF ret'.op = "add_node"
                THEN <<"order", "dirty">>
                ELSE <<"dirty", "order">>]_vars

\* add_node between its recomputation of the order and its mark_dirty, on a
\* graph that already has a connection
C23_Witness ==
    /\ InCall
    /\ ret.op = "add_node"
    /\ PhaseNames(ret.val[1]) = <<"dirty">>
    /\ ret.args[1] \in Range(evaluation_order)
    /\ ret.args[1] \notin dirty_nodes
    /\ connections # <<>>

\* C24: no reader (evaluate_node_graph) and no other mutation observes a
\* state in which a node or edge change is committed but the dirty set or
\* the evaluation order has not been updated for it: every call and every
\* read starts when no call is under way, and the order the reader sees is
\* the one recomputation gives for the topology it sees.
C24_Atomicity ==
    [][/\ calls' = calls + 1 => ~InCall
       /\ ret'.op = "evaluate_node_graph" =>
             /\ evaluation_order = update_evaluation_order(Self).evaluation_order
             /\ ret'.val[1] = SelectSeq(evaluation_order,
                                        LAMBDA n : n \in dirty_nodes)]_vars

C24_Witness ==
    /\ ret.op = "evaluate_node_graph"
    /\ Len(ret.val[1]) >= 1
    /\ Len(evaluation_order) >= 2
    /\ Live \ dirty_nodes # {}
    /\ connections # <<>>

\* C25: every call of add_node, remove_node, add_connection,
\* remove_connection and mark_dirty returns, and on every reachable state the
\* cycle-guard search, the recursive dirty propagation and the Kahn
\* recomputation terminate: the search within one pop per edge plus one, the
\* propagation within one call per mapped node plus one, the recomputation
\* within one pop per arena node, for every argument a call can pass.
C25_RunToCompletion ==
    /\ ret.tag # "Panic"
    /\ \A from_node, to_node \in Live :
          would_create_cycle_budget(graph, node_to_index[from_node],
                                    <<node_to_index[to_node]>>, {},
                                    Len(graph.edges) + 1) >= 0
    /\ \A node_id \in NodeIds :
          propagate_dirty_downstream_budget(Self, {node_id}, node_id,
              Cardinality(DOMAIN index_to_node) + 1).budget >= 0
    /\ update_evaluation_order_budget(Self, node_count(graph)) >= 0

\* The orders in which the elements of S can be passed
Orders(S) ==
    {f \in [1..Cardinality(S) -> S] : \A i, j \in 1..Cardinality(S) : f[i] = f[j] => i = j}

\* Replaying add_node for a sequence of node ids on a resource
RECURSIVE ReplayNodes(_, _)
ReplayNodes(r, ids) ==
    IF ids = <<>> \/ r.tag # "Ok" THEN r
    ELSE ReplayNodes(add_node(r.self, Head(ids)), Tail(ids))

\* Replaying add_connection for a sequence of connection records; the k-th
\* call of the new engine draws the connection id k
RECURSIVE ReplayConnections(_, _, _)
ReplayConnections(r, conns, k) ==
    IF conns = <<>> \/ r.tag # "Ok" THEN r
    ELSE LET c == Head(conns)
         IN ReplayConnections(
                add_connection(r.self, c.from_node, c.from_port, c.to_node,
                               c.to_port, c.data_type, k),
                Tail(conns), k + 1)

\* What a connection is apart from its id
Wire(c) == <<c.from_node, c.from_port, c.to_node, c.to_port, c.data_type>>

WireCount(conns, w) == Cardinality({c \in DOMAIN conns : Wire(conns[c]) = w})

\* C27: from every reachable state, an empty engine given add_node for each
\* live node and then add_connection for each registered connection, in any
\* order, accepts every call and ends with the same node set and the same
\* multiset of (from_node, from_port, to_node, to_port, data_type).
C27_ReplayRoundTrip ==
    ret.tag # "Panic" =>
      \A nodes \in Orders(Live), conns \in Orders(DOMAIN connections) :
        LET r1 == ReplayNodes(Ok(NodeGraph_default, <<>>), nodes)
            r2 == ReplayConnections(r1,
                      [i \in 1..Len(conns) |-> connections[conns[i]]], 1)
        IN /\ r2.tag = "Ok"
           /\ DOMAIN r2.self.node_to_index = Live
           /\ Cardinality(DOMAIN r2.self.connections) = Cardinality(DOMAIN connections)
           /\ \A c \in DOMAIN connections :
                 WireCount(r2.self.connections, Wire(connections[c]))
                    = WireCount(connections, Wire(connections[c]))

\* C28: node_to_index and index_to_node are inverse of each other over
\* exactly the live ids, every mapped index is a position of the arena, the
\* arena payload at node_to_index[id] is id, and no two live ids share a
\* position.
C28_IndexBijection ==
    /\ \A id \in Live :
          /\ node_to_index[id] \in DOMAIN index_to_node
          /\ index_to_node[node_to_index[id]] = id
          /\ node_to_index[id] < node_count(graph)
          /\ graph.nodes[node_to_index[id] + 1] = id
    /\ \A index \in DOMAIN index_to_node :
          /\ index_to_node[index] \in Live
          /\ node_to_index[index_to_node[index]] = index
    /\ \A a, b \in Live : node_to_index[a] = node_to_index[b] => a = b

\* C29: remove_node(n) keeps every connection whose endpoints both differ
\* from n registered with unchanged fields, and the input and the output
\* connections of every other node lose exactly the connections that had n
\* as an endpoint.
C29_RemoveNodeFrame ==
    [][(ret'.op = "remove_node" /\ ret'.tag = "Ok") =>
         LET n == ret'.args[1]
             touching == {c \in Registered : c.from_node = n \/ c.to_node = n}
         IN /\ \A c \in DOMAIN connections :
                 (connections[c].from_node # n /\ connections[c].to_node # n)
                    => /\ c \in DOMAIN connections'
                       /\ connections'[c] = connections[c]
            /\ \A m \in NodeIds \ {n} :
                 /\ get_input_connections(Self', m)
                       = get_input_connections(Self, m) \ touching
                 /\ get_output_connections(Self', m)
                       = get_output_connections(Self, m) \ touching]_vars

C29_Witness ==
    /\ ret.op = "remove_node"
    /\ ret.tag = "Ok"
    /\ ret.args = <<2>>
    /\ calls = 6
    /\ ConnEdges = {<<1, 3>>}
    /\ Cardinality(get_output_connections(Self, 1)) = 1

\* The run of test_cycle_detection up to its last connect call: three nodes
\* on a new engine, connected 1 -> 2 and 2 -> 3, and now 3 -> 1 is asked for
CycleTestStep ==
    /\ calls = 5
    /\ Live = {1, 2, 3}
    /\ issued = 2
    /\ ConnEdges = {<<1, 2>>, <<2, 3>>}
    /\ ret'.op = "add_connection"
    /\ ret'.args[1] = 3
    /\ ret'.args[3] = 1

EdgesBetween(g, i, j) ==
    Cardinality({e \in 1..Len(g.edges) : g.edges[e].a = i /\ g.edges[e].b = j})

\* The number of registered connections from node a to node b
ConnectionsBetween(conns, a, b) ==
    Cardinality({c \in DOMAIN conns :
        conns[c].from_node = a /\ conns[c].to_node = b})

\* C31: for every ordered pair of live nodes (a, b) the arena has as many
\* edges from the position of a to the position of b as the registry has
\* connections from a to b, and every arena edge runs between the positions
\* of the endpoints of some registered connection.
C31_StoreMatchesRegistry ==
    /\ \A a \in Live, b \in Live :
          EdgesBetween(graph, node_to_index[a], node_to_index[b])
             = ConnectionsBetween(connections, a, b)
    /\ \A e \in 1..Len(graph.edges) :
          \E c \in DOMAIN connections :
             /\ connections[c].from_node \in Live
             /\ connections[c].to_node \in Live
             /\ node_to_index[connections[c].from_node] = graph.edges[e].a
             /\ node_to_index[connections[c].to_node] = graph.edges[e].b

\* C32: after any calls of add_node, remove_node, add_connection,
\* remove_connection, mark_dirty and clear_dirty, with any identifiers,
\* every node in the dirty set is live.
C32_DirtyOnlyLive == dirty_nodes \subseteq Live

\* The errors a mutating call returns
GraphErrors == {"NodeAlreadyExists", "NodeNotFound", "ConnectionNotFound", "CycleDetected"}

\* C33: a call of add_node, remove_node, add_connection or remove_connection
\* that returns an error leaves the arena's nodes and edges, both index maps,
\* the connection registry, the dirty set and the evaluation order as they
\* were before the call.
C33_FailedCallsChangeNothing ==
    [][(ret'.op \in Structural /\ ret'.tag \in GraphErrors) =>
         /\ graph' = graph
         /\ node_to_index' = node_to_index
         /\ index_to_node' = index_to_node
         /\ connections' = connections
         /\ dirty_nodes' = dirty_nodes
         /\ evaluation_order' = evaluation_order]_vars

C33_Witness ==
    /\ ret.op = "add_connection"
    /\ ret.tag = "CycleDetected"
    /\ ret.args[3] \notin dirty_nodes
    /\ dirty_nodes # {}
    /\ connections # <<>>
    /\ Cardinality(Live) = 3

====
